---- MODULE Spec2Model ----
(***************************************************************************)
(* A model of CrossHairPrimitiveProvider                                   *)
(* (src/hypothesis_crosshair_provider/crosshair_provider.py): the session  *)
(* that lets Hypothesis draw its primitives from the CrossHair engine.     *)
(*                                                                         *)
(* The session's fields are the variables.  The engine (StateSpace,        *)
(* RootNode, deep_realize, prefer_true) is an external library: it is      *)
(* modelled by the outcomes its calls can have at the places the provider  *)
(* calls it.  The test body is opaque: it draws, opens and closes spans,   *)
(* branches on symbolic values, exports values, raises or returns.  An     *)
(* exception raised inside the body propagates to the context manager      *)
(* (the body does not swallow it).                                         *)
(***************************************************************************)
EXTENDS Integers, Sequences, FiniteSets, TLC

\* ------------------------------------------------------------------ bounds
\* Largest concrete value of a drawn primitive (a str/bytes value v has length v).
MaxVal == 1
\* Most draws recorded in one attempt.
MaxDraws == 2
\* Most attempts begun in one session.
MaxIter == 4
\* Most decisions on one path of the search tree.
MaxDepth == 1
\* Most spans open at once.
MaxSpans == 1
\* Number of span labels.
NumLabels == 2
\* Most spans open at once in a session of nested spans.
MaxNesting == 5
\* Most attempts open at once when the host nests them.
MaxNest == 2

\* ------------------------------------------------------- program constants
\* span depth from which a boolean (and integer) draw is biased
BiasDepth == 4

VARIABLES
    iteration_number,    \* self.iteration_number
    search_root,         \* self.search_root: the set of exhausted leaves of the Path Tree
    covering,            \* self.covering
    previous_space,      \* self._previous_space is not None
    exhausted,           \* self.exhausted
    doublecheck_inputs,  \* self.doublecheck_inputs: <<>> is None, <<q>> is the list q
    spans,               \* self.span_tracker.spans
    span_depths,         \* self.span_tracker.span_depths
    hypothesis_draws,    \* self._hypothesis_draws
    completion,          \* self.completion
    completion_written,  \* set_completion was called since the last attempt began
    space,               \* the StateSpace made by the last _make_statespace
    frames,              \* open per_test_case_context_manager generators, innermost last
    exc,                 \* the exception the last operation raised ("None": it returned)
    ret,                 \* the value the last operation returned (<<>>: none)
    lastOp,              \* the last operation and how it was served
    replay_src,          \* the concretized Draw Record, in draw order, of the last user exception
    replay_pops,         \* values popped from the Replay Queue since it was set
    limit_hit,           \* some operation ended on UnexploredPath or NotDeterministic
    spaces_made          \* number of _make_statespace calls

vars == <<iteration_number, search_root, covering, previous_space, exhausted,
          doublecheck_inputs, spans, span_depths, hypothesis_draws, completion, completion_written,
          space, frames, exc, ret, lastOp, replay_src, replay_pops, limit_hit,
          spaces_made>>

\* --------------------------------------------------------------- values
None == <<>>
Some(x) == <<x>>

Kinds == {"bool", "int", "float", "str", "bytes"}
Vals == 0..MaxVal
\* the float nan
NaN == -1
ValsOf(kind) == IF kind = "float" THEN Vals \cup {NaN} ELSE Vals
Concrete(kind, v) == [kind |-> kind, v |-> v, sym |-> FALSE]
Symbolic(kind, id) == [kind |-> kind, v |-> id, sym |-> TRUE]
ConcreteValues == UNION {{Concrete(k, v) : v \in ValsOf(k)} : k \in Kinds}
Labels == 1..NumLabels
Ids == 1..MaxDraws

\* Python's isinstance(value, expected_type) on the five primitive types:
\* bool is a subclass of int.
IsInstance(value, expected_type) ==
    \/ value.kind = expected_type
    \/ (value.kind = "bool" /\ expected_type = "int")

RECURSIVE Reverse(_)
Reverse(s) == IF s = <<>> THEN <<>> ELSE Append(Reverse(Tail(s)), Head(s))

Last(s) == s[Len(s)]
Front(s) == SubSeq(s, 1, Len(s) - 1)

\* ----------------------------------------------------------- exceptions
UnexploredPaths == {"UnknownSatisfiability", "PathTimeout", "CrosshairUnsupported"}
BackendCannotProceeds == {"BCP_discard_test_case", "BCP_verified", "BCP_exhausted"}
HypothesisExceptions == BackendCannotProceeds \cup {"HypothesisException"}
\* handle_user_exception reached by `except BaseException`
UserExceptions_base == {"Exception", "TypeError", "KeyboardInterrupt", "BaseException"}

\* ordinary exceptions of the test body: an Exception, and a TypeError that is
\* not a suspected proxy intolerance
UserExceptions == {"Exception", "TypeError"}
BaseExceptions == {"KeyboardInterrupt", "BaseException"}

\* ---------------------------------------------------------- the engine
\* A node of the Path Tree is exhausted when it is a leaf or both its branches are.
RECURSIVE IsExhausted(_, _)
IsExhausted(root, path) ==
    \/ path \in root
    \/ /\ Len(path) < MaxDepth
       /\ IsExhausted(root, Append(path, 0))
       /\ IsExhausted(root, Append(path, 1))

NoSpace == [next_name_id |-> 0, is_detached |-> FALSE, path |-> <<>>,
            dom |-> [i \in Ids |-> {}], expired |-> FALSE]

\* StateSpace(...): a fresh search state at the root of the tree
NewSpace == [NoSpace EXCEPT !.next_name_id = 0]

\* is_tracing(): the innermost open attempt runs under COMPOSITE_TRACER
is_tracing == frames # <<>> /\ Last(frames) = "symbolic"

\* StateSpace.detach_path: the path taken becomes a leaf of the tree, once
DetachedSpace(sp) == [sp EXCEPT !.is_detached = TRUE]
DetachedRoot(sp, root) == IF sp.is_detached THEN root ELSE root \cup {sp.path}

\* a decision made on a detached space is recorded in the tree as the
\* decision of the attempt
DetachedDecision_recorded(sp, b) == [sp EXCEPT !.path = <<b>>]

\* a decision made after detach_path: the search position is outside the
\* tree, the path of the attempt stays as it was
DetachedDecision(sp, b) == sp

\* deep_realize on symbolic id i: every value the solver may pick for it; the
\* symbolic is that value from then on
Realizations(sp, i) == sp.dom[i]

\* a realization that leaves the symbolic unconstrained
Realized_forgotten(sp, i, x) == sp

\* the space after deep_realize picked x for symbolic id i
Realized(sp, i, x) == [sp EXCEPT !.dom[i] = {x}]

Init ==
    /\ iteration_number = 0
    /\ search_root = {}
    /\ covering = TRUE
    /\ previous_space = FALSE
    /\ exhausted = FALSE
    /\ doublecheck_inputs = None
    /\ spans = <<>>
    /\ span_depths = [l \in Labels |-> 0]
    /\ hypothesis_draws = <<>>
    /\ completion = "unset"
    /\ completion_written = FALSE
    /\ space = NoSpace
    /\ frames = <<>>
    /\ exc = "None"
    /\ ret = None
    /\ lastOp = [op |-> "init", served |-> "none", kind |-> "none", forced |-> None,
                 after |-> "none", sat |-> Vals, value |-> 0, args |-> <<>>]
    /\ replay_src = <<>>
    /\ replay_pops = 0
    /\ limit_hit = FALSE
    /\ spaces_made = 0

\* the record of an operation: how it was served, the kind it drew or the
\* exception it handled, its forced argument, for the end of an attempt the
\* operation before it, and for a draw_integer the values within its bounds
Op(op, served, kind) ==
    [op |-> op, served |-> served, kind |-> kind, forced |-> None, after |-> "none",
     sat |-> Vals, value |-> 0, args |-> <<>>]

\* the record of a draw that was not forced: the values that meet the bounds
\* of a draw_integer are kept with it
DrawOp(op, served, kind, sat) ==
    [Op(op, served, kind) EXCEPT !.sat = IF kind = "int" THEN sat ELSE Vals]

\* An operation of the host or the body can start: no exception is in flight
\* inside an open attempt.
Running == frames = <<>> \/ exc = "None"

\* ------------------------------------------------------------ bubble_status
\* the merge made whether or not a previous-attempt reference exists
bubble_status_root_unguarded == search_root \cup {space.path}

\* self._previous_space.bubble_status(...): the path of the previous attempt
\* is merged into the tree as a leaf
bubble_status_root ==
    IF previous_space THEN search_root \cup {space.path} ELSE search_root

\* the flag assigned the value of is_exhausted() instead of only ever set
bubble_status_exhausted_assigned ==
    previous_space /\ IsExhausted(bubble_status_root, <<>>)

\* if self.search_root.child.is_exhausted(): self.exhausted = True
bubble_status_exhausted ==
    IF previous_space /\ IsExhausted(bubble_status_root, <<>>) THEN TRUE ELSE exhausted

\* bubble_status(), called by the host between attempts
bubble_status ==
    /\ Running
    /\ search_root' = bubble_status_root
    /\ exhausted' = bubble_status_exhausted
    /\ previous_space' = FALSE
    /\ exc' = "None"
    /\ ret' = None
    /\ lastOp' = Op("bubble_status", "none", "none")
    /\ UNCHANGED <<iteration_number, covering, doublecheck_inputs, spans, span_depths,
                   hypothesis_draws, completion, completion_written, space, frames, replay_src,
                   replay_pops, limit_hit, spaces_made>>

\* ------------------------------------------- per_test_case_context_manager
\* the signal of an exhausted session
ExhaustedSignal == IF covering THEN "BCP_verified" ELSE "BCP_exhausted"

\* the queue tested by its truth value: an empty list counts as no replay
ReplayPending_truthy == doublecheck_inputs # None /\ doublecheck_inputs[1] # <<>>

\* exhaustion tested before the pending replay
ReplayPending_unless_exhausted == doublecheck_inputs # None /\ ~bubble_status_exhausted

\* a replay is pending: self.doublecheck_inputs is not None
ReplayPending == doublecheck_inputs # None

\* per_test_case_context_manager, from its call to its yield (or to the
\* exception it raises before yielding)
per_test_case_context_manager ==
    /\ Running
    /\ ret' = None
    /\ IF is_tracing
       THEN /\ exc' = "BaseException"
            /\ lastOp' = Op("enter", "refused", "none")
            /\ UNCHANGED <<iteration_number, search_root, covering, previous_space,
                           exhausted, doublecheck_inputs, spans, span_depths,
                           hypothesis_draws, completion, completion_written, space, frames, replay_src,
                           replay_pops, limit_hit, spaces_made>>
       ELSE /\ iteration_number < MaxIter
            /\ search_root' = bubble_status_root
            /\ exhausted' = bubble_status_exhausted
            /\ previous_space' = FALSE
            /\ iteration_number' = iteration_number + 1
            /\ spans' = <<>>
            /\ span_depths' = [l \in Labels |-> 0]
            /\ hypothesis_draws' = <<>>
            /\ UNCHANGED <<covering, doublecheck_inputs, replay_src, replay_pops, limit_hit>>
            /\ IF ReplayPending
               THEN /\ frames' = Append(frames, "replay")
                    /\ exc' = "None"
                    /\ lastOp' = Op("enter", "replay", "none")
                    /\ completion_written' = FALSE
                    /\ UNCHANGED <<completion, space, spaces_made>>
               ELSE IF bubble_status_exhausted
               THEN /\ completion' = "exhausted all paths - nothing else to do"
                    /\ completion_written' = TRUE
                    /\ exc' = ExhaustedSignal
                    /\ lastOp' = Op("enter", "exhausted", "none")
                    /\ UNCHANGED <<frames, space, spaces_made>>
               ELSE /\ space' = NewSpace
                    /\ spaces_made' = spaces_made + 1
                    /\ frames' = Append(frames, "symbolic")
                    /\ exc' = "None"
                    /\ lastOp' = Op("enter", "symbolic", "none")
                    /\ completion_written' = FALSE
                    /\ UNCHANGED completion

\* the host begins an attempt: none is open, or it tries to nest one in a
\* symbolic attempt
begin_attempt ==
    /\ frames = <<>> \/ is_tracing
    /\ per_test_case_context_manager

\* the host begins an attempt inside a concrete-replay attempt
begin_nested_attempt ==
    /\ frames # <<>>
    /\ ~is_tracing
    /\ Len(frames) < MaxNest
    /\ per_test_case_context_manager

\* the concretized Draw Record: draw i realized to f[i]
Concretized(f) ==
    [i \in 1..Len(hypothesis_draws) |-> Concrete(hypothesis_draws[i].kind, f[i])]

\* the queue left in draw order
ReplayQueueOf_unreversed(concretized) == concretized

\* self.doublecheck_inputs = list(map(deep_realize, self._hypothesis_draws));
\* self.doublecheck_inputs.reverse()
ReplayQueueOf(concretized) == Reverse(concretized)

\* handle_user_exception(exc), run on the detached space sp
handle_user_exception(e, sp) ==
    \/ \* deep_realize(exc.args) raises: nothing after it runs
       /\ hypothesis_draws # <<>>
       /\ \E ee \in {"IgnoreAttempt", "UnknownSatisfiability"} :
            /\ exc' = ee
            /\ limit_hit' = (limit_hit \/ ee \in UnexploredPaths)
       /\ space' = sp
       /\ UNCHANGED <<completion, completion_written, doublecheck_inputs, replay_src, replay_pops>>
    \/ \* deep_realize of a draw raises: the completion is set, the queue is not
       /\ hypothesis_draws # <<>>
       /\ \E ee \in {"IgnoreAttempt", "UnknownSatisfiability"} :
            /\ exc' = ee
            /\ limit_hit' = (limit_hit \/ ee \in UnexploredPaths)
       /\ space' = sp
       /\ completion' = "raised user exception"
       /\ completion_written' = TRUE
       /\ UNCHANGED <<doublecheck_inputs, replay_src, replay_pops>>
    \/ \* every draw is realized
       \E f \in [1..Len(hypothesis_draws) -> Vals \cup {NaN}] :
         /\ \A i \in 1..Len(hypothesis_draws) :
                /\ hypothesis_draws[i].v = i
                /\ f[i] \in Realizations(sp, i)
         /\ space' = [sp EXCEPT !.dom = [id \in Ids |->
                IF id <= Len(hypothesis_draws) THEN {f[id]} ELSE sp.dom[id]]]
         /\ completion' = "raised user exception"
         /\ completion_written' = TRUE
         /\ doublecheck_inputs' = Some(ReplayQueueOf(Concretized(f)))
         /\ replay_src' = Concretized(f)
         /\ replay_pops' = 0
         /\ exc' = "BCP_discard_test_case"
         /\ UNCHANGED limit_hit

\* the text set_completion gets for a benign abort
CompletionText(e) ==
    CASE e = "IgnoreAttempt" -> "ignored due to lazily-detected path impossibility"
      [] e = "UnknownSatisfiability" -> "ignored due to excessive solver costs"
      [] e = "CrosshairUnsupported" ->
            "ignored due to use of Python features not yet supported by CrossHair"
      [] e = "PathTimeout" -> "ignored due to path timeout"
      [] e = "NotDeterministic" -> "ignored due to non determinism detected"

\* every benign abort taken for a search limit
LosesCoverage_any(e) == TRUE

\* if isinstance(exc, (UnexploredPath, NotDeterministic)): self.covering = False
LosesCoverage(e) == e \in UnexploredPaths \cup {"NotDeterministic"}

\* the exceptions the finally clause does not detach the path for
NoDetach == BackendCannotProceeds \cup UnexploredPaths \cup {"KeyboardInterrupt"}

\* per_test_case_context_manager of a symbolic attempt, from the return or
\* the exception of the body to its end
per_test_case_exit ==
    /\ frames # <<>>
    /\ Last(frames) = "symbolic"
    /\ frames' = Front(frames)
    /\ ret' = None
    /\ lastOp' = [Op("exit", "symbolic", exc) EXCEPT !.after = lastOp.op]
    /\ previous_space' = TRUE
    /\ search_root' = IF exc \in NoDetach THEN search_root
                      ELSE DetachedRoot(space, search_root)
    /\ UNCHANGED <<iteration_number, exhausted, spans, span_depths, hypothesis_draws,
                   spaces_made>>
    /\ LET sp == IF exc \in NoDetach THEN space ELSE DetachedSpace(space) IN
       CASE exc = "None" ->
              /\ completion' = "completed normally"
              /\ completion_written' = TRUE
              /\ exc' = "None"
              /\ space' = sp
              /\ UNCHANGED <<covering, doublecheck_inputs, replay_src, replay_pops,
                             limit_hit>>
         [] exc \in {"IgnoreAttempt", "NotDeterministic"} \cup UnexploredPaths ->
              /\ covering' = IF LosesCoverage(exc) THEN FALSE ELSE covering
              /\ limit_hit' = (limit_hit \/ exc \in UnexploredPaths \cup {"NotDeterministic"})
              /\ completion' = CompletionText(exc)
              /\ completion_written' = TRUE
              /\ exc' = "BCP_discard_test_case"
              /\ space' = sp
              /\ UNCHANGED <<doublecheck_inputs, replay_src, replay_pops>>
         [] exc \in HypothesisExceptions ->
              /\ completion' = "forwarded hypothesis exception"
              /\ completion_written' = TRUE
              /\ exc' = exc
              /\ space' = sp
              /\ UNCHANGED <<covering, doublecheck_inputs, replay_src, replay_pops,
                             limit_hit>>
         [] exc = "ProxyTypeError" ->
              /\ completion' = "ignored due to proxy intolerance"
              /\ completion_written' = TRUE
              /\ exc' = "BCP_discard_test_case"
              /\ space' = sp
              /\ UNCHANGED <<covering, doublecheck_inputs, replay_src, replay_pops,
                             limit_hit>>
         [] exc \in UserExceptions ->
              /\ handle_user_exception(exc, sp)
              /\ UNCHANGED covering
         [] exc \in BaseExceptions ->
              /\ completion' = "forwarded (base) exception"
              /\ completion_written' = TRUE
              /\ exc' = exc
              /\ space' = sp
              /\ UNCHANGED <<covering, doublecheck_inputs, replay_src, replay_pops,
                             limit_hit>>

\* the queue cleared after the yield instead of in a finally clause
per_test_case_exit_replay_keeps ==
    /\ frames # <<>>
    /\ Last(frames) = "replay"
    /\ frames' = Front(frames)
    /\ doublecheck_inputs' = IF exc = "None" THEN None ELSE doublecheck_inputs
    /\ exc' = exc
    /\ ret' = None
    /\ lastOp' = [Op("exit", "replay", exc) EXCEPT !.after = lastOp.op]
    /\ UNCHANGED <<iteration_number, search_root, covering, previous_space, exhausted,
                   spans, span_depths, hypothesis_draws, completion, completion_written, space, replay_src,
                   replay_pops, limit_hit, spaces_made>>

\* per_test_case_context_manager of a concrete-replay attempt, from the
\* return or the exception of the body to its end
per_test_case_exit_replay ==
    /\ frames # <<>>
    /\ Last(frames) = "replay"
    /\ frames' = Front(frames)
    /\ doublecheck_inputs' = None
    /\ exc' = exc
    /\ ret' = None
    /\ lastOp' = [Op("exit", "replay", exc) EXCEPT !.after = lastOp.op]
    /\ replay_src' = <<>>
    /\ replay_pops' = 0
    /\ UNCHANGED <<iteration_number, search_root, covering, previous_space, exhausted,
                   spans, span_depths, hypothesis_draws, completion, completion_written, space,
                   limit_hit, spaces_made>>

\* ------------------------------------------------------------ SpanTracker
\* SpanTracker.depth()
depth == IF Labels = {} THEN 0
         ELSE CHOOSE d \in {span_depths[l] : l \in Labels} :
                \A l \in Labels : span_depths[l] <= d

\* what a draw leaves alone besides the draw state
DrawFrame == <<iteration_number, covering, previous_space, exhausted, spans, span_depths,
               completion, completion_written, frames, replay_src, limit_hit,
               spaces_made>>

\* span_start(label)
span_start(label) ==
    /\ frames # <<>>
    /\ Running
    /\ spans' = Append(spans, label)
    /\ span_depths' = [span_depths EXCEPT ![label] = @ + 1]
    /\ exc' = "None"
    /\ ret' = None
    /\ lastOp' = Op("span_start", "none", "none")
    /\ UNCHANGED <<iteration_number, search_root, covering, previous_space, exhausted,
                   doublecheck_inputs, hypothesis_draws, completion, completion_written, space, frames,
                   replay_src, replay_pops, limit_hit, spaces_made>>

\* span_end that pops the label and leaves its open count as it was
span_end_keeps_count ==
    /\ frames # <<>>
    /\ Running
    /\ spans' = IF spans # <<>> THEN Front(spans) ELSE spans
    /\ exc' = "None"
    /\ ret' = None
    /\ lastOp' = Op("span_end", "none", "none")
    /\ UNCHANGED <<iteration_number, search_root, covering, previous_space, exhausted,
                   doublecheck_inputs, span_depths, hypothesis_draws, completion,
                   completion_written, space, frames, replay_src, replay_pops, limit_hit,
                   spaces_made>>

\* span_end(discard)
span_end ==
    /\ frames # <<>>
    /\ Running
    /\ IF spans # <<>>
       THEN /\ spans' = Front(spans)
            /\ span_depths' = [span_depths EXCEPT ![Last(spans)] = @ - 1]
       ELSE UNCHANGED <<spans, span_depths>>
    /\ exc' = "None"
    /\ ret' = None
    /\ lastOp' = Op("span_end", "none", "none")
    /\ UNCHANGED <<iteration_number, search_root, covering, previous_space, exhausted,
                   doublecheck_inputs, hypothesis_draws, completion, completion_written, space, frames,
                   replay_src, replay_pops, limit_hit, spaces_made>>

\* ----------------------------------------------------------------- draws
\* the forced value remembered as a draw
draw_forced_remembered(op, kind, forced) ==
    /\ ret' = forced
    /\ exc' = "None"
    /\ lastOp' = [Op(op, "forced", kind) EXCEPT !.forced = forced]
    /\ hypothesis_draws' = Append(hypothesis_draws, forced[1])
    /\ UNCHANGED <<search_root, doublecheck_inputs, space, replay_pops>>

\* if forced is not None: return forced
draw_forced(op, kind, forced) ==
    /\ ret' = forced
    /\ exc' = "None"
    /\ lastOp' = [Op(op, "forced", kind) EXCEPT !.forced = forced]
    /\ UNCHANGED <<search_root, doublecheck_inputs, hypothesis_draws, space, replay_pops>>

\* draw_boolean's p <= 0.0 and p >= 1.0: a fixed boolean
draw_short_circuit(op, value) ==
    /\ ret' = Some(value)
    /\ exc' = "None"
    /\ lastOp' = Op(op, "short", "bool")
    /\ UNCHANGED <<search_root, doublecheck_inputs, hypothesis_draws, space, replay_pops>>

\* _replayed_draw(expected_type)
replayed_draw(op, expected_type, sat) ==
    /\ lastOp' = DrawOp(op, "replay", expected_type, sat)
    /\ UNCHANGED <<search_root, hypothesis_draws, space>>
    /\ IF doublecheck_inputs = None
       THEN /\ exc' = "CrossHairInternal"
            /\ ret' = None
            /\ UNCHANGED <<doublecheck_inputs, replay_pops>>
       ELSE IF doublecheck_inputs[1] = <<>>
       THEN /\ exc' = "BCP_discard_test_case"
            /\ ret' = None
            /\ UNCHANGED <<doublecheck_inputs, replay_pops>>
       ELSE LET value == Last(doublecheck_inputs[1]) IN
            /\ doublecheck_inputs' = Some(Front(doublecheck_inputs[1]))
            /\ replay_pops' = replay_pops + 1
            /\ IF IsInstance(value, expected_type)
               THEN ret' = Some(value) /\ exc' = "None"
               ELSE ret' = None /\ exc' = "BCP_discard_test_case"

\* the deadline never found passed
Timeouts_never(sp) == {FALSE}

\* space.check_timeout(): whether it raises PathTimeout.  It does when the
\* execution deadline is known to have passed; otherwise the deadline may
\* pass just before the call.
Timeouts(sp) == IF sp.expired THEN {TRUE} ELSE BOOLEAN

\* smt_fork of _bias_towards_value(symbolic, value): the branches the engine
\* may take, each with the domain it leaves the symbolic and the path it is on
BiasBranches(sp, kind, value) ==
    LET branch(b) == [dom |-> IF b = 1 THEN {value} ELSE ValsOf(kind) \ {value},
                      path |-> IF sp.is_detached THEN sp.path ELSE Append(sp.path, b)]
    IN {branch(b) : b \in {b \in {0, 1} :
            sp.is_detached \/ ~IsExhausted(search_root, Append(sp.path, b))}}

\* the symbolic a draw allocates: proxy_for_type(...), then the bias fork
\* when span_depth >= 4
Allocations(sp, kind, biased, value) ==
    IF biased /\ depth >= BiasDepth
    THEN BiasBranches(sp, kind, value)
    ELSE {[dom |-> ValsOf(kind), path |-> sp.path]}

\* prefer_true(conditions) on a symbolic with domain dom, sat the values
\* that meet the conditions: the domains it may return true with
PreferTrue(dom, sat) == IF dom \cap sat = {} THEN {} ELSE {dom \cap sat}
\* prefer_true may return false
PreferFalse(dom, sat) == dom \ sat # {}

\* a draw that allocates a symbolic of `kind`: _next_name, the allocation,
\* the conditions and _remember_draw.  nan_ok is draw_float's allow_nan.
symbolic_draw(op, kind, biased, value, sat, nan_ok) ==
    /\ lastOp' = DrawOp(op, "symbolic", kind, sat)
    /\ UNCHANGED <<doublecheck_inputs, replay_pops>>
    /\ IF ~is_tracing
       THEN \* context_statespace(): not in a statespace context
            /\ exc' = "CrossHairInternal"
            /\ ret' = None
            /\ UNCHANGED <<search_root, hypothesis_draws, space>>
       ELSE \E timeout \in Timeouts(space) :
            IF timeout
            THEN \* space.check_timeout()
                 /\ exc' = "PathTimeout"
                 /\ ret' = None
                 /\ space' = [space EXCEPT !.expired = TRUE]
                 /\ UNCHANGED <<search_root, hypothesis_draws>>
            ELSE /\ space.next_name_id < MaxDraws
                 /\ Len(space.path) < MaxDepth \/ ~(biased /\ depth >= BiasDepth)
                    \/ space.is_detached
                 /\ LET id == space.next_name_id + 1 IN
                    \E a \in Allocations(space, kind, biased, value) :
                    \E nan \in (IF NaN \in a.dom THEN {TRUE} ELSE {}) \cup {FALSE} :
                    LET dom == IF nan THEN {NaN} ELSE a.dom \ {NaN}
                        ok == IF nan THEN (IF nan_ok THEN {dom} ELSE {})
                              ELSE PreferTrue(dom, sat)
                        ignore == IF nan THEN ~nan_ok ELSE PreferFalse(dom, sat)
                    IN
                    \E accept \in (IF ok # {} THEN {TRUE} ELSE {})
                                  \cup (IF ignore THEN {FALSE} ELSE {}) :
                       /\ dom # {}
                       /\ UNCHANGED search_root
                       /\ IF accept
                          THEN /\ space' = [space EXCEPT !.next_name_id = id,
                                              !.path = a.path,
                                              !.dom[id] = CHOOSE d \in ok : TRUE]
                               /\ hypothesis_draws' =
                                      Append(hypothesis_draws, Symbolic(kind, id))
                               /\ ret' = Some(Symbolic(kind, id))
                               /\ exc' = "None"
                          ELSE /\ space' = [space EXCEPT !.next_name_id = id,
                                              !.path = a.path,
                                              !.dom[id] = IF nan THEN dom ELSE dom \ sat]
                               /\ UNCHANGED hypothesis_draws
                               /\ ret' = None
                               /\ exc' = "IgnoreAttempt"

\* the body of every draw after its forced and short-circuit checks:
\* if self.doublecheck_inputs is None: allocate, else: _replayed_draw
draw(op, kind, biased, value, sat, nan_ok) ==
    IF ~ReplayPending
    THEN symbolic_draw(op, kind, biased, value, sat, nan_ok)
    ELSE replayed_draw(op, kind, sat)

Optional(S) == {None} \cup {Some(x) : x \in S}
Forced(kind) == Optional({Concrete(kind, v) : v \in ValsOf(kind)})

\* the values between optional inclusive bounds
InBounds(min_value, max_value) ==
    {x \in Vals : /\ (min_value # None => min_value[1] <= x)
                  /\ (max_value # None => x <= max_value[1])}

\* draw_boolean(p, forced); p in percent
draw_boolean(p, forced) ==
    /\ frames # <<>>
    /\ Running
    /\ UNCHANGED DrawFrame
    /\ IF forced # None THEN draw_forced("draw_boolean", "bool", forced)
       ELSE IF p <= 0 THEN draw_short_circuit("draw_boolean", Concrete("bool", 0))
       ELSE IF p >= 100 THEN draw_short_circuit("draw_boolean", Concrete("bool", 1))
       ELSE draw("draw_boolean", "bool", TRUE, 0, Vals, FALSE)

\* draw_integer(min_value, max_value, forced)
draw_integer(min_value, max_value, forced) ==
    /\ frames # <<>>
    /\ Running
    /\ UNCHANGED DrawFrame
    /\ IF forced # None THEN draw_forced("draw_integer", "int", forced)
       ELSE draw("draw_integer", "int", TRUE, 0, InBounds(min_value, max_value), FALSE)

\* A float is an integer code: v >= 0 is the float +v (0 is positive zero),
\* -2 is negative zero and -(v + 2) is the float -v; NaN is the code -1.
NegZero == -2
\* is_negative(x): math.copysign(1, x) == -1
is_negative(x) == x <= NegZero
\* the number a float code stands for; both zeros are 0
Num(x) == IF x >= 0 THEN x ELSE x + 2
Floats == ((-MaxVal - 2)..MaxVal) \ {NaN}

\* the conditions with the test on the sign of a zero bound left out
FloatConditions_unsigned(min_value, max_value, smallest_nonzero_magnitude, x) ==
    /\ min_value # None => Num(min_value[1]) <= Num(x)
    /\ max_value # None => Num(x) <= Num(max_value[1])
    /\ smallest_nonzero_magnitude \notin {None, Some(0)} =>
          \/ Num(x) <= -smallest_nonzero_magnitude[1]
          \/ Num(x) = 0
          \/ Num(x) >= smallest_nonzero_magnitude[1]

\* all(conditions) of draw_float on the non-NaN float x; a bound of None is
\* the infinity of its side
FloatConditions(min_value, max_value, smallest_nonzero_magnitude, x) ==
    /\ min_value # None =>
          /\ Num(min_value[1]) <= Num(x)
          /\ (Num(min_value[1]) = 0 /\ ~is_negative(min_value[1])) => ~is_negative(x)
    /\ max_value # None =>
          /\ Num(x) <= Num(max_value[1])
          /\ (Num(max_value[1]) = 0 /\ is_negative(max_value[1])) => is_negative(x)
    /\ smallest_nonzero_magnitude \notin {None, Some(0)} =>
          \/ Num(x) <= -smallest_nonzero_magnitude[1]
          \/ Num(x) = 0
          \/ Num(x) >= smallest_nonzero_magnitude[1]

\* draw_float(min_value, max_value, allow_nan, smallest_nonzero_magnitude, forced);
\* a bound of None is the infinity of its side
draw_float(min_value, max_value, allow_nan, smallest_nonzero_magnitude, forced) ==
    /\ frames # <<>>
    /\ Running
    /\ UNCHANGED DrawFrame
    /\ IF forced # None THEN draw_forced("draw_float", "float", forced)
       ELSE draw("draw_float", "float", FALSE, 0,
                 {x \in Vals : FloatConditions(min_value, max_value,
                                               smallest_nonzero_magnitude, x)},
                 allow_nan)

\* draw_float(min_value, max_value, allow_nan, smallest_nonzero_magnitude) in a
\* symbolic attempt, on a path where the solver has fixed the symbolic to the
\* float x, of either sign or NaN
draw_float_of(min_value, max_value, allow_nan, smallest_nonzero_magnitude, x) ==
    /\ is_tracing
    /\ Running
    /\ ~ReplayPending
    /\ ~space.expired
    /\ space.next_name_id < MaxDraws
    /\ UNCHANGED DrawFrame
    /\ UNCHANGED <<search_root, doublecheck_inputs, replay_pops>>
    /\ lastOp' = [Op("draw_float", "symbolic", "float") EXCEPT
                    !.args = <<min_value, max_value, allow_nan,
                               smallest_nonzero_magnitude>>]
    /\ LET id == space.next_name_id + 1 IN
       /\ space' = [space EXCEPT !.next_name_id = id, !.dom[id] = {x}]
       /\ IF IF x = NaN THEN allow_nan
             ELSE FloatConditions(min_value, max_value, smallest_nonzero_magnitude, x)
          THEN /\ hypothesis_draws' = Append(hypothesis_draws, Symbolic("float", id))
               /\ ret' = Some(Symbolic("float", id))
               /\ exc' = "None"
          ELSE /\ UNCHANGED hypothesis_draws
               /\ ret' = None
               /\ exc' = "IgnoreAttempt"

\* draw_string(intervals, min_size, max_size, forced); a string is its length
draw_string(min_size, max_size, forced) ==
    /\ frames # <<>>
    /\ Running
    /\ UNCHANGED DrawFrame
    /\ IF forced # None THEN draw_forced("draw_string", "str", forced)
       ELSE draw("draw_string", "str", FALSE, 0,
                 InBounds(IF min_size > 0 THEN Some(min_size) ELSE None, max_size), FALSE)

\* draw_bytes(min_size, max_size, forced); a byte string is its length
draw_bytes(min_size, max_size, forced) ==
    /\ frames # <<>>
    /\ Running
    /\ UNCHANGED DrawFrame
    /\ IF forced # None THEN draw_forced("draw_bytes", "bytes", forced)
       ELSE draw("draw_bytes", "bytes", FALSE, 0,
                 InBounds(Some(min_size), Some(max_size)), FALSE)

\* ------------------------------------------------------------- the body
\* the test body branches on a symbolic value: the engine takes a branch
\* that is not exhausted and the path grows by that decision
body_branch ==
    /\ is_tracing
    /\ Running
    /\ space.next_name_id > 0
    /\ \E b \in {0, 1} :
         IF space.is_detached
         THEN \* after an export_value made in the attempt
              space' = DetachedDecision(space, b)
         ELSE /\ Len(space.path) < MaxDepth
              /\ ~IsExhausted(search_root, Append(space.path, b))
              /\ space' = [space EXCEPT !.path = Append(space.path, b)]
    /\ exc' = "None"
    /\ ret' = None
    /\ lastOp' = Op("body_branch", "none", "none")
    /\ UNCHANGED <<iteration_number, search_root, covering, previous_space, exhausted,
                   doublecheck_inputs, spans, span_depths, hypothesis_draws, completion, completion_written,
                   frames, replay_src, replay_pops, limit_hit, spaces_made>>

\* post_test_case_context_manager(), entered by the host after an attempt
\* with a body that branches on the values drawn in it
post_test_case_context_manager ==
    /\ frames = <<>>
    /\ IF previous_space
       THEN \* self._previous_space.detach_path(); yield
            /\ search_root' = DetachedRoot(space, search_root)
            /\ \E b \in {0, 1} : space' = DetachedDecision(DetachedSpace(space), b)
       ELSE \* yield, in no search state
            UNCHANGED <<search_root, space>>
    /\ exc' = "None"
    /\ ret' = None
    /\ lastOp' = Op("post_test_case", IF previous_space THEN "post" ELSE "none", "none")
    /\ UNCHANGED <<iteration_number, covering, previous_space, exhausted,
                   doublecheck_inputs, spans, span_depths, hypothesis_draws, completion, completion_written,
                   frames, replay_src, replay_pops, limit_hit, spaces_made>>

\* the execution deadline of the Path Attempt (monotonic() + per_path_timeout)
\* passes while the body runs
deadline_passes ==
    /\ is_tracing
    /\ Running
    /\ ~space.expired
    /\ space' = [space EXCEPT !.expired = TRUE]
    /\ exc' = "None"
    /\ ret' = None
    /\ lastOp' = Op("deadline_passes", "none", "none")
    /\ UNCHANGED <<iteration_number, search_root, covering, previous_space, exhausted,
                   doublecheck_inputs, spans, span_depths, hypothesis_draws, completion,
                   completion_written, frames, replay_src, replay_pops, limit_hit,
                   spaces_made>>

\* what the body of a symbolic attempt may raise: its own exceptions, the
\* host's, and those of the engine operations it runs on symbolic values
SymbolicBodyRaises ==
    UserExceptions \cup {"ProxyTypeError", "HypothesisException", "KeyboardInterrupt",
                         "IgnoreAttempt", "NotDeterministic", "UnknownSatisfiability",
                         "CrosshairUnsupported"}
\* what the body of a concrete replay may raise
ReplayBodyRaises == UserExceptions \cup {"HypothesisException", "KeyboardInterrupt"}

\* the test body raises e
body_raise(e) ==
    /\ frames # <<>>
    /\ Running
    /\ e \in (IF is_tracing THEN SymbolicBodyRaises ELSE ReplayBodyRaises)
    /\ exc' = e
    /\ ret' = None
    /\ lastOp' = Op("body_raise", "none", "none")
    /\ UNCHANGED <<iteration_number, search_root, covering, previous_space, exhausted,
                   doublecheck_inputs, spans, span_depths, hypothesis_draws, completion, completion_written,
                   space, frames, replay_src, replay_pops, limit_hit, spaces_made>>

\* ---------------------------------------------------------- export_value
\* the exceptions export_value turns into the discard signal
RealizeFailures == {"IgnoreAttempt"} \cup UnexploredPaths

\* an except clause that names IgnoreAttempt only
ExportCaught_ignore_only == {"IgnoreAttempt"}

\* except (IgnoreAttempt, UnexploredPath) of export_value
ExportCaught == {"IgnoreAttempt"} \cup UnexploredPaths

\* an export_value call, in the attempt or after it; kind is the exception
\* deep_realize raised, if any
ExportOp(i, failure) ==
    [Op("export_value", IF is_tracing THEN "tracing" ELSE "post", failure)
     EXCEPT !.value = i]

\* export_value(value): value is draw i of the Draw Record, or, for i = 0,
\* a concrete value
export_value(i) ==
    /\ Running
    /\ i \in 0..Len(hypothesis_draws)
    /\ UNCHANGED <<iteration_number, covering, previous_space, exhausted,
                   doublecheck_inputs, spans, span_depths, hypothesis_draws, completion, completion_written,
                   frames, replay_src, replay_pops, spaces_made>>
    /\ IF is_tracing \/ previous_space
       THEN \* in the attempt, or in post_test_case_context_manager on the
            \* previous space: detach_path(), then deep_realize(value)
            /\ search_root' = DetachedRoot(space, search_root)
            /\ IF i = 0
               THEN /\ space' = DetachedSpace(space)
                    /\ ret' = Some(Concrete("int", 0))
                    /\ exc' = "None"
                    /\ lastOp' = ExportOp(i, "none")
                    /\ UNCHANGED limit_hit
               ELSE LET value == hypothesis_draws[i] IN
                    \E failure \in RealizeFailures \cup {"None"} :
                      IF failure # "None"
                      THEN /\ space' = DetachedSpace(space)
                           /\ ret' = None
                           /\ exc' = IF failure \in ExportCaught
                                     THEN "BCP_discard_test_case"
                                     ELSE failure
                           /\ lastOp' = ExportOp(i, failure)
                           /\ limit_hit' = (limit_hit \/ failure \in UnexploredPaths)
                      ELSE \E x \in Realizations(space, value.v) :
                           /\ space' = Realized(DetachedSpace(space), value.v, x)
                           /\ ret' = Some(Concrete(value.kind, x))
                           /\ exc' = "None"
                           /\ lastOp' = ExportOp(i, "none")
                           /\ UNCHANGED limit_hit
       ELSE \* no previous space: deep_realize(value) outside any search state
            /\ UNCHANGED <<search_root, space, limit_hit>>
            /\ lastOp' = ExportOp(i, "none")
            /\ IF i = 0
               THEN ret' = Some(Concrete("int", 0)) /\ exc' = "None"
               ELSE ret' = None /\ exc' = "CrossHairInternal"

\* ------------------------------------------------------- specifications
Percents == {0, 50, 100}

\* a forced draw is called with no constraints or with constraints no value
\* meets; a draw that is not forced with every combination of constraints
DrawBoolean ==
    \/ \E p \in Percents, forced \in Forced("bool") \ {None} : draw_boolean(p, forced)
    \/ \E p \in Percents : draw_boolean(p, None)
DrawInteger ==
    \/ \E forced \in Forced("int") \ {None} :
         \/ draw_integer(None, None, forced)
         \/ draw_integer(Some(MaxVal), Some(0), forced)
    \/ \E min_value \in Optional(Vals), max_value \in Optional(Vals) :
         draw_integer(min_value, max_value, None)
DrawFloat ==
    \/ \E forced \in Forced("float") \ {None} :
         \/ draw_float(None, None, TRUE, None, forced)
         \/ draw_float(Some(MaxVal), Some(0), FALSE, Some(MaxVal), forced)
    \/ \E min_value \in Optional(Vals), max_value \in Optional(Vals),
          allow_nan \in BOOLEAN, smallest_nonzero_magnitude \in {None, Some(MaxVal)} :
         draw_float(min_value, max_value, allow_nan, smallest_nonzero_magnitude, None)
DrawString ==
    \/ \E forced \in Forced("str") \ {None} :
         \/ draw_string(0, None, forced)
         \/ draw_string(MaxVal, Some(0), forced)
    \/ \E min_size \in Vals, max_size \in Optional(Vals) :
         draw_string(min_size, max_size, None)
DrawBytes ==
    \/ \E forced \in Forced("bytes") \ {None} :
         \/ draw_bytes(0, MaxVal, forced)
         \/ draw_bytes(MaxVal, 0, forced)
    \/ \E min_size \in Vals, max_size \in Vals : draw_bytes(min_size, max_size, None)
SpanStart == \E label \in Labels : Len(spans) < MaxSpans /\ span_start(label)
SpanStartNested == \E label \in Labels : Len(spans) < MaxNesting /\ span_start(label)
BodyRaise == \E e \in SymbolicBodyRaises \cup ReplayBodyRaises : body_raise(e)
ExportValue == \E i \in 0..MaxDraws : export_value(i)

Next ==
    \/ begin_attempt
    \/ per_test_case_exit
    \/ per_test_case_exit_replay
    \/ bubble_status
    \/ DrawBoolean
    \/ DrawInteger
    \/ body_branch
    \/ BodyRaise
    \/ ExportValue

\* the host runs one attempt at a time
Spec == Init /\ [][Next]_vars

\* the body of every attempt draws an integer and returns after exactly one
\* decision on it that is made before any export; it may export the value
\* and decide again in the attempt, and the host may do both after it
NextOneBranch ==
    \/ begin_attempt
    \/ hypothesis_draws = <<>> /\ DrawInteger
    \/ hypothesis_draws # <<>> /\ (space.path = <<>> \/ space.is_detached) /\ body_branch
    \/ Len(space.path) = 1 /\ exc = "None" /\ hypothesis_draws # <<>> /\ per_test_case_exit
    \/ (frames = <<>> \/ Len(space.path) = 1) /\ ExportValue
    \/ post_test_case_context_manager
    \/ bubble_status

SpecOneBranch == Init /\ [][NextOneBranch]_vars

\* most attempts begun in a session that draws all five kinds
MaxKindsIter == 2

NextDeadline ==
    \/ iteration_number < MaxKindsIter /\ begin_attempt
    \/ per_test_case_exit
    \/ per_test_case_exit_replay
    \/ deadline_passes
    \/ DrawBoolean
    \/ DrawInteger
    \/ DrawFloat
    \/ DrawString
    \/ DrawBytes
    \/ BodyRaise

\* a session in which the deadline of an attempt may pass at any point of the body
SpecDeadline == Init /\ [][NextDeadline]_vars

NextKinds ==
    \/ iteration_number < MaxKindsIter /\ begin_attempt
    \/ per_test_case_exit
    \/ per_test_case_exit_replay
    \/ DrawBoolean
    \/ DrawInteger
    \/ DrawFloat
    \/ DrawString
    \/ DrawBytes
    \/ body_branch
    \/ BodyRaise

\* a session whose body draws all five kinds and branches on them
SpecKinds == Init /\ [][NextKinds]_vars

NextSpans ==
    \/ iteration_number < MaxKindsIter /\ begin_attempt
    \/ per_test_case_exit
    \/ per_test_case_exit_replay
    \/ DrawBoolean
    \/ DrawInteger
    \/ DrawFloat
    \/ DrawString
    \/ DrawBytes
    \/ SpanStart
    \/ span_end
    \/ BodyRaise

\* a session whose body draws all five kinds inside spans
SpecSpans == Init /\ [][NextSpans]_vars

NextNested ==
    \/ iteration_number < MaxKindsIter /\ begin_attempt
    \/ per_test_case_exit
    \/ SpanStartNested
    \/ span_end
    \/ space.next_name_id = 0 /\ DrawBoolean
    \/ space.next_name_id = 0 /\ DrawInteger
    \/ space.next_name_id = 0 /\ DrawFloat
    \/ space.next_name_id = 0 /\ DrawString
    \/ space.next_name_id = 0 /\ DrawBytes

\* a session whose body opens and closes nested spans and allocates one
\* symbolic, of any of the five kinds, somewhere among them
SpecNested == Init /\ [][NextNested]_vars

DrawFloatOf ==
    \E min_value \in Optional(Floats), max_value \in Optional(Floats),
       allow_nan \in BOOLEAN, smallest_nonzero_magnitude \in Optional(Vals),
       x \in Floats \cup {NaN} :
      draw_float_of(min_value, max_value, allow_nan, smallest_nonzero_magnitude, x)

NextFloats ==
    \/ iteration_number < MaxKindsIter /\ begin_attempt
    \/ per_test_case_exit
    \/ space.next_name_id = 0 /\ DrawFloatOf

\* a session whose body draws one float of either sign, a zero of either
\* sign or NaN, under bounds of either sign
SpecFloats == Init /\ [][NextFloats]_vars

NextReentrant == Next \/ begin_nested_attempt

\* the host may also begin an attempt inside a concrete-replay attempt
SpecReentrant == Init /\ [][NextReentrant]_vars

\* ================================================================ claims
DrawOps == {"draw_boolean", "draw_integer", "draw_float", "draw_string", "draw_bytes"}
\* the innermost open attempt is a concrete replay
InReplay == frames # <<>> /\ Last(frames) = "replay"
DiscardSignal == "BCP_discard_test_case"

\* C1: when the body of a symbolic attempt raises an ordinary user exception,
\* the context manager ends with the discard signal and the Replay Queue is a
\* list, so that the next attempt is a replay.
C1_UserExceptionBecomesReplay ==
    [][(is_tracing /\ exc \in UserExceptions /\ lastOp'.op = "exit")
        => (exc' = DiscardSignal /\ doublecheck_inputs' # None)]_vars

\* C2: the values a replay attempt pops are the concretized Draw Record of the
\* failing attempt in draw order: the k-th popped value is that of draw k.  A
\* forced or short-circuited draw is not recorded and pops nothing.
C2_ReplayInDrawOrder ==
    [][/\ (lastOp'.op \in DrawOps /\ lastOp'.served = "replay" /\ exc' = "None")
            => (/\ replay_pops' = replay_pops + 1
                /\ replay_pops' <= Len(replay_src')
                /\ ret' = Some(replay_src'[replay_pops']))
       /\ (lastOp'.op \in DrawOps /\ lastOp'.served \in {"forced", "short"})
            => (/\ hypothesis_draws' = hypothesis_draws
                /\ doublecheck_inputs' = doublecheck_inputs
                /\ replay_pops' = replay_pops)]_vars

\* a replay returned the second of two different recorded values
C2_Witness ==
    /\ InReplay
    /\ lastOp.served = "replay"
    /\ exc = "None"
    /\ replay_pops = 2
    /\ replay_src[1] # replay_src[2]

\* C3: an attempt begun while a replay is pending allocates no Path Attempt,
\* and until it ends no draw allocates a symbolic or records one: a draw that
\* is neither forced nor short-circuited returns the value popped from the
\* Replay Queue or raises the discard signal.
C3_ReplayNeverSymbolic ==
    [][/\ (doublecheck_inputs # None /\ frames = <<>> /\ lastOp'.op = "enter")
            => (frames' = <<"replay">> /\ spaces_made' = spaces_made /\ space' = space)
       /\ (InReplay /\ frames' = frames)
            => /\ spaces_made' = spaces_made
               /\ space' = space
               /\ hypothesis_draws' = hypothesis_draws
               /\ (lastOp'.op \in DrawOps /\ lastOp'.served \notin {"forced", "short"})
                    => \/ exc' = DiscardSignal
                       \/ /\ exc' = "None"
                          /\ doublecheck_inputs # None
                          /\ doublecheck_inputs[1] # <<>>
                          /\ ret' = Some(Last(doublecheck_inputs[1]))
                          /\ doublecheck_inputs' = Some(Front(doublecheck_inputs[1]))]_vars

\* a draw of a replay attempt returned the queued value
C3_Witness ==
    /\ InReplay
    /\ lastOp.op \in DrawOps
    /\ lastOp.served = "replay"
    /\ exc = "None"
    /\ ret # None

\* C4: a replay attempt leaves the Replay Queue None however it ends, and the
\* queue is only ever set by the end of a symbolic attempt: no attempt after a
\* replay replays the same queue.
C4_ReplayClearsPending ==
    [][/\ (InReplay /\ frames' = Front(frames)) => doublecheck_inputs' = None
       /\ (doublecheck_inputs' # None /\ doublecheck_inputs' # doublecheck_inputs
             /\ lastOp'.op \notin DrawOps)
            => (lastOp'.op = "exit" /\ lastOp'.served = "symbolic")
       /\ (lastOp'.op = "enter" /\ lastOp'.served = "replay")
            => ~(lastOp.op = "exit" /\ lastOp.served = "replay")]_vars

\* a replay attempt ended with an exception of the body
C4_Witness ==
    /\ lastOp.op = "exit"
    /\ lastOp.served = "replay"
    /\ lastOp.kind = "Exception"
    /\ doublecheck_inputs = None

\* the signals of an exhausted session
FastFails == {"BCP_verified", "BCP_exhausted"}

\* C5 as stated: the exhausted flag stays true, and every attempt whose entry
\* finds it true is fast-failed before the body runs, with no new Path Attempt.
C5_EveryAttemptFastFailed ==
    [][/\ exhausted => exhausted'
       /\ (exhausted' /\ frames = <<>> /\ lastOp'.op = "enter")
            => (exc' \in FastFails /\ frames' = <<>> /\ spaces_made' = spaces_made)]_vars

\* C5 as amended: the exhausted flag stays true, and an attempt whose entry
\* finds it true allocates no Path Attempt; it is fast-failed before the body
\* runs unless a replay is pending, and then it runs as a concrete replay.
C5_ExhaustionSticky ==
    [][/\ exhausted => exhausted'
       /\ (exhausted' /\ frames = <<>> /\ lastOp'.op = "enter")
            => /\ spaces_made' = spaces_made
               /\ IF doublecheck_inputs = None
                  THEN exc' \in FastFails /\ frames' = <<>>
                  ELSE exc' = "None" /\ frames' = <<"replay">>]_vars

\* an attempt begun in an exhausted session was fast-failed
C5_Witness ==
    /\ exhausted
    /\ lastOp.op = "enter"
    /\ lastOp.served = "exhausted"
    /\ exc \in FastFails
    /\ frames = <<>>

\* C6: the signal "verified" is raised only if no earlier operation of the
\* session ended on a search limit or on non-determinism, and the coverage
\* flag never goes back to true.
C6_VerifiedIsSound ==
    /\ [](exc = "BCP_verified" => ~limit_hit)
    /\ [][~covering => ~covering']_vars

\* C7: a draw with a forced value returns that value and changes nothing of
\* the session: not the Draw Record, the Replay Queue, the name counter, the
\* Path Attempt nor the Path Tree; it raises nothing (no deadline check, no
\* constraint).
C7_ForcedBypassesEverything ==
    [][(lastOp'.op \in DrawOps /\ lastOp'.forced # None)
        => /\ ret' = lastOp'.forced
           /\ exc' = "None"
           /\ UNCHANGED <<iteration_number, search_root, covering, previous_space,
                          exhausted, doublecheck_inputs, spans, span_depths,
                          hypothesis_draws, completion, space, frames, replay_pops,
                          spaces_made>>]_vars

\* a forced draw inside an open span of a replay attempt with a value queued
C7_Witness ==
    /\ InReplay
    /\ lastOp.op = "draw_bytes"
    /\ lastOp.forced # None
    /\ ret = lastOp.forced
    /\ spans # <<>>
    /\ doublecheck_inputs # None
    /\ doublecheck_inputs[1] # <<>>

\* C8: entering per_test_case_context_manager while an attempt is open fails
\* at once and leaves the iteration counter, the Draw Record, the Span Stack,
\* the Replay Queue and the Path Tree as they were.
C8_AttemptsNeverNest ==
    [][(frames # <<>> /\ lastOp'.op = "enter")
        => /\ exc' = "BaseException"
           /\ frames' = frames
           /\ UNCHANGED <<iteration_number, hypothesis_draws, spans, span_depths,
                          doublecheck_inputs, search_root>>]_vars

\* C9: a replay draw of kind K returns the queued value only if a draw of kind
\* K recorded it; on another kind or an empty queue it raises the discard
\* signal.
C9_ReplayDivergenceSignalled ==
    [][(lastOp'.op \in DrawOps /\ lastOp'.served = "replay")
        => IF /\ doublecheck_inputs[1] # <<>>
              /\ Last(doublecheck_inputs[1]).kind = lastOp'.kind
           THEN exc' = "None" /\ ret' = Some(Last(doublecheck_inputs[1]))
           ELSE exc' = DiscardSignal /\ ret' = None]_vars

\* C10: a draw whose constraints are not preferred true records nothing and
\* raises IgnoreAttempt; the attempt then ends with the discard signal and the
\* completion of a lazily-detected path impossibility, the Replay Queue None
\* and the coverage flag as it was, and the next attempt is begun as usual.
C10_ConstraintFailureAbortsAttempt ==
    [][/\ (lastOp'.op \in DrawOps /\ exc' = "IgnoreAttempt")
            => /\ hypothesis_draws' = hypothesis_draws
               /\ UNCHANGED <<doublecheck_inputs, covering, search_root, frames>>
       /\ (lastOp.op \in DrawOps /\ exc = "IgnoreAttempt" /\ lastOp'.op = "exit")
            => /\ exc' = DiscardSignal
               /\ completion' = "ignored due to lazily-detected path impossibility"
               /\ doublecheck_inputs' = None
               /\ covering' = covering
               /\ frames' = Front(frames)
       /\ (lastOp.op = "exit" /\ lastOp.after \in DrawOps /\ lastOp.kind = "IgnoreAttempt"
             /\ lastOp'.op = "enter")
            => /\ lastOp'.served \in {"symbolic", "exhausted"}
               /\ iteration_number' = iteration_number + 1]_vars

\* an attempt aborted by the length constraint of draw_bytes has ended
C10_Witness ==
    /\ lastOp.op = "exit"
    /\ lastOp.after = "draw_bytes"
    /\ lastOp.kind = "IgnoreAttempt"
    /\ exc = DiscardSignal
    /\ completion = "ignored due to lazily-detected path impossibility"
    /\ covering
    /\ doublecheck_inputs = None
    /\ frames = <<>>

\* C11: a draw_integer(min_value, max_value) that is not forced and returns
\* gives a value within the bounds: every value a symbolic result can be
\* realized to, and the value a replay returns.
C11_IntegerBoundLaw ==
    [][(lastOp'.op = "draw_integer" /\ lastOp'.forced = None /\ exc' = "None"
          /\ ret' # None /\ ret'[1].kind = "int")
        => /\ lastOp'.served \in {"symbolic", "replay"}
           /\ IF ret'[1].sym
              THEN /\ space'.dom[ret'[1].v] # {}
                   /\ space'.dom[ret'[1].v] \subseteq lastOp'.sat
              ELSE ret'[1].v \in lastOp'.sat]_vars

\* C12: with a body that makes exactly one binary decision on a drawn integer
\* in every attempt, the exhausted flag is false until the bubble_status that
\* follows the second completed attempt and true from then on, and no third
\* Path Attempt is made; decisions made in post_test_case_context_manager or
\* after an export_value of the attempt do not change this.
C12_TwoAttemptsExhaustOneBranch ==
    /\ spaces_made <= 2
    /\ exhausted <=> (spaces_made = 2 /\ frames = <<>> /\ ~previous_space)

\* the second attempt has completed and the host has branched on its value
\* in post_test_case_context_manager: every path is explored, the flag is
\* still false
C12_Witness ==
    /\ lastOp.op = "post_test_case"
    /\ lastOp.served = "post"
    /\ spaces_made = 2
    /\ previous_space
    /\ ~exhausted
    /\ IsExhausted(search_root, <<>>)

\* C13: whenever a signal of the session (discard_test_case, verified,
\* exhausted) reaches the host, set_completion has been called since the
\* attempt that raised it began: the completion read after the signal is
\* that attempt's.
C13_CompletionBeforeSignal ==
    (frames = <<>> /\ exc \in BackendCannotProceeds) => completion_written

\* C14: when the body of a symbolic attempt raises a host-framework exception
\* (BackendCannotProceed included) or a BaseException that is not an
\* Exception, the context manager re-raises that exception and leaves the
\* Replay Queue, the exhausted flag and the coverage flag as they were.
C14_OtherErrorsPropagate ==
    [][(is_tracing /\ exc \in HypothesisExceptions \cup BaseExceptions
          /\ lastOp'.op = "exit")
        => /\ exc' = exc
           /\ frames' = Front(frames)
           /\ doublecheck_inputs' = None
           /\ UNCHANGED <<doublecheck_inputs, exhausted, covering>>]_vars

\* a symbolic attempt with a recorded draw has ended on KeyboardInterrupt
C14_Witness ==
    /\ lastOp.op = "exit"
    /\ lastOp.served = "symbolic"
    /\ lastOp.kind = "KeyboardInterrupt"
    /\ exc = "KeyboardInterrupt"
    /\ hypothesis_draws # <<>>
    /\ doublecheck_inputs = None
    /\ frames = <<>>

\* C15 as stated: a draw made in an attempt whose execution deadline has
\* passed fails with the timeout instead of returning, however it is served.
C15_DeadlineOnEveryDraw ==
    [][(is_tracing /\ space.expired /\ lastOp'.op \in DrawOps)
        => (exc' = "PathTimeout" /\ ret' = None)]_vars

\* C15 as amended: past the deadline of a symbolic attempt, a draw that
\* allocates a symbolic fails with the timeout, records nothing, and the
\* attempt ends with the discard signal and the coverage flag false; a forced
\* or short-circuited draw returns its value.  A replay attempt has no
\* deadline: its draws never time out.
C15_DeadlineOnSymbolicDraws ==
    [][/\ (is_tracing /\ space.expired /\ lastOp'.op \in DrawOps)
            => IF lastOp'.served = "symbolic"
               THEN /\ exc' = "PathTimeout"
                    /\ ret' = None
                    /\ hypothesis_draws' = hypothesis_draws
               ELSE /\ lastOp'.served \in {"forced", "short"}
                    /\ exc' = "None"
                    /\ ret' # None
       /\ (InReplay /\ lastOp'.op \in DrawOps) => exc' \in {"None", DiscardSignal}
       /\ (is_tracing /\ exc = "PathTimeout" /\ lastOp'.op = "exit")
            => /\ exc' = DiscardSignal
               /\ ~covering'
               /\ completion' = "ignored due to path timeout"]_vars

\* a draw_integer made after the deadline passed, with a draw recorded before
\* it, has failed
C15_Witness ==
    /\ is_tracing
    /\ space.expired
    /\ lastOp.op = "draw_integer"
    /\ lastOp.served = "symbolic"
    /\ exc = "PathTimeout"
    /\ Len(hypothesis_draws) = 1

\* C16: when the realization made by export_value fails with IgnoreAttempt or
\* an UnexploredPath kind, in an attempt or after it, export_value raises the
\* discard signal and leaves the Replay Queue, the exhausted flag and the
\* iteration counter unchanged.
C16_ExportFailureIsDiscard ==
    [][(lastOp'.op = "export_value" /\ lastOp'.kind \in RealizeFailures)
        => /\ exc' = DiscardSignal
           /\ ret' = None
           /\ UNCHANGED <<doublecheck_inputs, exhausted, iteration_number>>]_vars

\* an export made after the attempt closed has failed on an unexplored path
C16_Witness ==
    /\ lastOp.op = "export_value"
    /\ lastOp.served = "post"
    /\ lastOp.kind = "UnknownSatisfiability"
    /\ exc = DiscardSignal
    /\ frames = <<>>

\* an export made inside the attempt has failed on an unsatisfiable path
C16_WitnessTracing ==
    /\ lastOp.op = "export_value"
    /\ lastOp.served = "tracing"
    /\ lastOp.kind = "IgnoreAttempt"
    /\ exc = DiscardSignal

\* C17: after a symbolic attempt has closed and before the next begins, two
\* successive export_value calls on the same drawn value that both return are
\* both made in the closed attempt's search state and return the same
\* concrete value, and neither allocates a Path Attempt.
C17_PostExportIdempotent ==
    [][(/\ frames = <<>>
        /\ lastOp.op = "export_value" /\ lastOp.value >= 1
        /\ lastOp.served = "post" /\ previous_space
        /\ exc = "None" /\ ret # None
        /\ lastOp'.op = "export_value" /\ lastOp'.value = lastOp.value
        /\ exc' = "None")
        => /\ ret' = ret
           /\ previous_space'
           /\ space'.is_detached
           /\ spaces_made' = spaces_made
           /\ space'.dom[hypothesis_draws[lastOp.value].v] = {ret[1].v}]_vars

\* a value of the closed attempt that two values satisfied has been exported
\* after the attempt, and the next attempt has not begun
C17_Witness ==
    /\ frames = <<>>
    /\ previous_space
    /\ lastOp.op = "export_value" /\ lastOp.served = "post" /\ lastOp.value = 1
    /\ exc = "None" /\ ret # None
    /\ hypothesis_draws[1].sym
    /\ space.dom[hypothesis_draws[1].v] = {ret[1].v}
    /\ completion = "completed normally"

\* C18: bubble_status merges the path of the closed attempt only when the
\* previous-attempt reference exists and always leaves the reference cleared,
\* so a second call with no attempt in between changes nothing; the reference
\* is set only by the close of a symbolic attempt; and a step that yields to
\* the body of the next attempt or allocates a Path Attempt has merged the
\* closed attempt and cleared the reference.
C18_MergedOnceBeforeNextAttempt ==
    [][/\ lastOp'.op = "bubble_status"
            => /\ ~previous_space'
               /\ search_root' = IF previous_space
                                 THEN search_root \cup {space.path}
                                 ELSE search_root
               /\ ~previous_space
                    => UNCHANGED <<iteration_number, search_root, covering, exhausted,
                                   doublecheck_inputs, hypothesis_draws, completion,
                                   space, frames, spaces_made>>
       /\ (Len(frames') > Len(frames) \/ spaces_made' # spaces_made)
            => /\ ~previous_space'
               /\ previous_space => space.path \in search_root'
               /\ previous_space /\ IsExhausted(search_root', <<>>) => exhausted'
       /\ (previous_space' /\ ~previous_space)
            => (is_tracing /\ lastOp'.op = "exit")]_vars

\* bubble_status has just been called a second time with no attempt in
\* between, after an attempt whose path was not detached closed
C18_Witness ==
    /\ lastOp.op = "bubble_status"
    /\ ~previous_space
    /\ frames = <<>>
    /\ spaces_made = 1
    /\ completion = "ignored due to excessive solver costs"
    /\ space.path # <<>>
    /\ ~space.is_detached
    /\ space.path \in search_root

\* C19: an attempt begun with the Replay Queue set and the exhausted flag true
\* yields to the body as a concrete replay, without a fast-fail and without a
\* new Path Attempt; the fast-fail signals are raised only by attempts begun
\* with no replay pending.
C19_ReplayBeforeExhaustion ==
    [][(frames = <<>> /\ lastOp'.op = "enter")
        => /\ (doublecheck_inputs # None /\ exhausted')
                => /\ lastOp'.served = "replay"
                   /\ exc' = "None"
                   /\ frames' = <<"replay">>
                   /\ spaces_made' = spaces_made
                   /\ completion' = completion
           /\ exc' \in FastFails
                => (doublecheck_inputs = None /\ exhausted')]_vars

\* the replay of a failure found on the last open branch is running, in a
\* session already exhausted
C19_Witness ==
    /\ exhausted
    /\ frames = <<"replay">>
    /\ lastOp.op = "enter"
    /\ lastOp.served = "replay"
    /\ doublecheck_inputs # None
    /\ exc = "None"
    /\ completion = "raised user exception"

\* C20: when a symbolic attempt ends on NotDeterministic, its close does not
\* detach the path into the Path Tree, and the next bubble_status or attempt
\* entry does not merge its path into the tree.
C20_NonDeterminismLeavesTree ==
    [][/\ (is_tracing /\ exc = "NotDeterministic" /\ lastOp'.op = "exit")
            => /\ search_root' = search_root
               /\ space'.is_detached = space.is_detached
       /\ (/\ frames = <<>>
           /\ previous_space
           /\ completion = "ignored due to non determinism detected"
           /\ lastOp'.op \in {"bubble_status", "enter"})
            => search_root' = search_root]_vars

\* C21: the signal "verified" is not raised by the entry that follows a
\* symbolic attempt ended by a user exception (whether or not its replay
\* reproduced it) or discarded for proxy intolerance: the completion text,
\* which a replay leaves as the symbolic attempt wrote it, is neither of the
\* two when the entry raises "verified".
C21_VerifiedMeansNoCounterexample ==
    [][(lastOp'.op = "enter" /\ exc' = "BCP_verified")
        => completion \notin {"raised user exception",
                              "ignored due to proxy intolerance"}]_vars

\* the same for the entry that follows the replay of a user exception
C21_VerifiedAfterReplay ==
    [][(/\ lastOp.op = "exit" /\ lastOp.served = "replay"
        /\ lastOp'.op = "enter" /\ exc' = "BCP_verified")
        => completion # "raised user exception"]_vars

\* C22: a failure to realize the arguments of a user exception is not
\* propagated and does not stop the protocol: every symbolic attempt whose
\* body raised a user exception ends with the completion written as "raised
\* <kind> exception", and a secondary error can only come from the
\* realization of the Draw Record that follows.
C22_ArgsRealizedBestEffort ==
    [][(is_tracing /\ exc \in UserExceptions /\ lastOp'.op = "exit")
        => /\ completion_written'
           /\ completion' = "raised user exception"]_vars

\* the number of occurrences of label l in the Span Stack s
RECURSIVE Occurrences(_, _)
Occurrences(s, l) ==
    IF s = <<>> THEN 0
    ELSE Occurrences(Tail(s), l) + (IF Head(s) = l THEN 1 ELSE 0)

\* C23: the open count of every label is the number of its occurrences in the
\* Span Stack, so no count is negative and depth() is the largest number of
\* open spans sharing a label; span_end on an empty stack changes neither the
\* stack nor the counts; an attempt begins with an empty stack and depth 0.
C23_SpanTrackerInvariant ==
    /\ [](/\ \A l \in Labels : /\ span_depths[l] = Occurrences(spans, l)
                               /\ span_depths[l] >= 0
          /\ \A l \in Labels : Occurrences(spans, l) <= depth
          /\ \E l \in Labels : Occurrences(spans, l) = depth)
    /\ [][/\ (lastOp'.op = "span_end" /\ spans = <<>>)
               => UNCHANGED <<spans, span_depths>>
          /\ (lastOp'.op = "span_end" /\ spans # <<>>)
               => spans' = Front(spans)
          /\ (lastOp'.op = "span_start")
               => (Front(spans') = spans /\ depth' >= depth)
          /\ (lastOp'.op = "enter" /\ Len(frames') > Len(frames))
               => (spans' = <<>> /\ depth' = 0)]_vars

\* in the second attempt of the session a span_end has left two labels open,
\* one of them three times
C23_Witness ==
    /\ frames # <<>>
    /\ Len(spans) = 4
    /\ depth = 3
    /\ \E l \in Labels : span_depths[l] = 1
    /\ lastOp.op = "span_end"
    /\ iteration_number = 2

\* C24: a symbolic draw_boolean with 0 < p < 1 makes the bias fork, a decision
\* on the path of the attempt, exactly when depth() >= 4; a symbolic
\* draw_integer, draw_float, draw_string or draw_bytes makes no decision on
\* the path whatever the Span Stack holds.
C24_OnlyBooleansReadSpans ==
    [][(/\ is_tracing /\ ~space.is_detached
        /\ lastOp'.op \in DrawOps /\ lastOp'.served = "symbolic"
        /\ exc' # "PathTimeout")
        => IF lastOp'.op = "draw_boolean"
           THEN (space'.path # space.path) <=> (depth >= BiasDepth)
           ELSE space'.path = space.path]_vars

\* the boolean half of C24 alone
C24_BooleanBiasAtDepth ==
    [][(/\ is_tracing /\ ~space.is_detached
        /\ lastOp'.op = "draw_boolean" /\ lastOp'.served = "symbolic"
        /\ exc' # "PathTimeout")
        => (space'.path # space.path) <=> (depth >= BiasDepth)]_vars

\* draw_float, draw_string and draw_bytes alone
C24_OtherKindsIgnoreSpans ==
    [][(/\ is_tracing /\ ~space.is_detached
        /\ lastOp'.op \in DrawOps \ {"draw_boolean", "draw_integer"}
        /\ lastOp'.served = "symbolic")
        => (space'.path = space.path /\ search_root' = search_root)]_vars

\* C25: a symbolic draw_float returns NaN only when allow_nan is true, whatever
\* the bounds; it returns a non-NaN x only when min_value <= x <= max_value, x
\* is not negative zero when min_value is positive zero, x is negative when
\* max_value is negative zero, and x is zero or of magnitude at least a
\* non-zero smallest_nonzero_magnitude; otherwise the draw raises IgnoreAttempt.
C25_FloatAcceptanceSet ==
    [][(lastOp'.op = "draw_float" /\ lastOp'.args # <<>>)
        => LET min_value == lastOp'.args[1]
               max_value == lastOp'.args[2]
               allow_nan == lastOp'.args[3]
               m == lastOp'.args[4]
               x == CHOOSE v \in space'.dom[space'.next_name_id] : TRUE
               magnitude == IF Num(x) >= 0 THEN Num(x) ELSE -Num(x)
               accepted ==
                   IF x = NaN THEN allow_nan
                   ELSE /\ min_value # None => Num(min_value[1]) <= Num(x)
                        /\ max_value # None => Num(x) <= Num(max_value[1])
                        /\ min_value = Some(0) => x # NegZero
                        /\ max_value = Some(NegZero) => x <= NegZero
                        /\ (m # None /\ m # Some(0)) => (Num(x) = 0 \/ magnitude >= m[1])
           IN IF accepted
              THEN /\ exc' = "None"
                   /\ ret' = Some(Symbolic("float", space'.next_name_id))
                   /\ hypothesis_draws' = Append(hypothesis_draws, ret'[1])
              ELSE /\ exc' = "IgnoreAttempt"
                   /\ ret' = None
                   /\ hypothesis_draws' = hypothesis_draws]_vars

\* a negative zero has been returned under max_value = -0.0 and
\* min_value = -1.0
C25_Witness ==
    /\ lastOp.op = "draw_float"
    /\ lastOp.args # <<>>
    /\ lastOp.args[1] = Some(-3)
    /\ lastOp.args[2] = Some(NegZero)
    /\ exc = "None"
    /\ ret # None
    /\ space.dom[ret[1].v] = {NegZero}

\* a negative zero has been refused under min_value = +0.0
C25_WitnessRefused ==
    /\ lastOp.op = "draw_float"
    /\ lastOp.args # <<>>
    /\ lastOp.args[1] = Some(0)
    /\ exc = "IgnoreAttempt"
    /\ space.dom[space.next_name_id] = {NegZero}
====
